---- MODULE Spec2Model ----
(***************************************************************************)
(* Model of onnx/news-classification-gpu/news-classification-gpu.ipynb:    *)
(* the notebook script (build vocabulary, export to ONNX, check, pack,     *)
(* save, serve) and the OnnxService it writes to bento_svc.py (predict and *)
(* classify_categories), served to a bounded number of concurrent requests.*)
(***************************************************************************)
EXTENDS Integers, Sequences, FiniteSets, TLC

\* ------------------------------------------------------------------ bounds
MaxTextLen == 3        \* longest request text, in characters
MaxWorkers == 2        \* requests the server interleaves
MaxTensorLen == 2      \* longest tensor handed to to_numpy on its own

\* --------------------------------------------------------- program constants
EMSIZE == 64

\* ------------------------------------------------------------- basic values
Alphabet == {"a", "B", " "}

RECURSIVE SeqsUpTo(_, _)
SeqsUpTo(S, n) ==
  IF n = 0 THEN {<<>>}
  ELSE LET shorter == SeqsUpTo(S, n - 1)
       IN  shorter \cup {Append(s, x) : s \in {t \in shorter : Len(t) = n - 1}, x \in S}

Texts == SeqsUpTo(Alphabet, MaxTextLen)

\* A JSON request body: an object with or without the key "text".
Bodies == {[text |-> t] : t \in Texts} \cup {[other |-> <<>>]}

\* Python's None, and an optional value.
NoneVal == [some |-> FALSE]
Some(v) == [some |-> TRUE, v |-> v]

\* Mutant: dict.get(key, ''), the empty string when the key is missing.
DictGetOrEmpty(d, key) == IF key \in DOMAIN d THEN Some(d[key]) ELSE Some(<<>>)

\* dict.get(key): the value, or None when the key is missing.
DictGet(d, key) == IF key \in DOMAIN d THEN Some(d[key]) ELSE NoneVal

\* ------------------------------------------------------ tokenizer and vocab
UNK == <<"<unk>">>
PAD == <<"<pad>">>

\* The training set, as far as the notebook reads it: its tokens in the
\* order Vocab sorts them (by frequency), and its set of labels.
Datasets == { <<<<"a">>>>,
              <<<<"b">>, <<"a">>, <<"a", "b">>>> }
AG_NEWS_labels == {1, 2, 3, 4}

Lower(c) == IF c = "B" THEN "b" ELSE c

RECURSIVE SplitWs(_, _, _)
SplitWs(s, cur, acc) ==
  IF s = <<>> THEN (IF cur = <<>> THEN acc ELSE Append(acc, cur))
  ELSE IF Head(s) = " "
       THEN SplitWs(Tail(s), <<>>, IF cur = <<>> THEN acc ELSE Append(acc, cur))
       ELSE SplitWs(Tail(s), Append(cur, Head(s)), acc)

\* get_tokenizer('basic_english'): lower-case the line, split on whitespace.
basic_english(line) == SplitWs([i \in 1..Len(line) |-> Lower(line[i])], <<>>, <<>>)

\* Vocab(counter, min_freq=1): the specials first, then the counted tokens.
Vocab(counter) == <<UNK, PAD>> \o counter

\* vocab[token]: the token's position in itos (0-based), the index of <unk>
\* for a token the vocabulary does not hold.
VocabIndex(vocab, token) ==
  IF \E i \in 1..Len(vocab) : vocab[i] = token
  THEN (CHOOSE i \in 1..Len(vocab) : vocab[i] = token) - 1
  ELSE 0

\* Mutant: a lookup enters every token it does not know.
RECURSIVE VocabGrows(_, _)
VocabGrows(vocab, tokens) ==
  IF tokens = <<>> THEN vocab
  ELSE VocabGrows(IF \E i \in 1..Len(vocab) : vocab[i] = Head(tokens)
                  THEN vocab ELSE Append(vocab, Head(tokens)),
                  Tail(tokens))

\* The vocabulary after vocab[token] for each of the tokens: a lookup only
\* reads it.
VocabAfterLookup(vocab, tokens) == vocab

\* Mutant: the index list comes out in reverse token order.
text_pipeline_reversed(vocab, tokens) ==
  [i \in 1..Len(tokens) |-> VocabIndex(vocab, tokens[Len(tokens) + 1 - i])]

\* get_pipeline(tokenizer, vocab)[0] applied to a token list.
text_pipeline(vocab, tokens) == [i \in 1..Len(tokens) |-> VocabIndex(vocab, tokens[i])]

\* Mutant: the table is sized by the counted tokens, without the specials.
get_model_params_no_specials(vocab) ==
  [vocab_size |-> Len(vocab) - 2, embed_dim |-> EMSIZE,
   num_class |-> Cardinality(AG_NEWS_labels)]

\* get_model_params(vocab)
get_model_params(vocab) ==
  [vocab_size |-> Len(vocab), embed_dim |-> EMSIZE, num_class |-> Cardinality(AG_NEWS_labels)]

\* ------------------------------------------------------------ torch / numpy
\* torch.tensor(list): int64 for a list of ints, float32 for the empty list.
torch_tensor(list) ==
  [data |-> list, dtype |-> IF Len(list) = 0 THEN "float32" ELSE "int64",
   requires_grad |-> FALSE]

to_numpy(tensor) == [data |-> tensor.data, dtype |-> tensor.dtype]

\* The same with storage: mem is a heap of buffers h and a tensor t that
\* views the buffer h[t.buf]; ok is FALSE once a call raised.
\* Tensor.detach(): the same storage, requires_grad off.
detach(mem) == [mem EXCEPT !.t.requires_grad = FALSE]

\* A copy of the tensor's buffer in a new buffer.
CopyOf(mem, device) ==
  [mem EXCEPT !.h = Append(mem.h, mem.h[mem.t.buf]),
              !.t.buf = Len(mem.h) + 1,
              !.t.device = device]

\* Tensor.cpu(): the tensor itself when it is in host memory, else a copy.
cpu(mem) == IF mem.t.device = "cpu" THEN mem ELSE CopyOf(mem, "cpu")

\* Tensor.clone(): a copy on the same device.
clone(mem) == CopyOf(mem, mem.t.device)

\* Tensor.numpy(): an array over the tensor's own buffer; raises for a
\* tensor that requires grad or is not in host memory.
numpy(mem) ==
  IF mem.t.requires_grad \/ mem.t.device # "cpu"
  THEN [h |-> mem.h, ok |-> FALSE, a |-> [state |-> "raised", buf |-> 0, dtype |-> ""]]
  ELSE [h |-> mem.h, ok |-> TRUE,
        a |-> [state |-> "array", buf |-> mem.t.buf, dtype |-> mem.t.dtype]]

\* Mutant: to_numpy without clone().
to_numpy_no_clone(h, t) ==
  IF t.requires_grad THEN numpy(cpu(detach([h |-> h, t |-> t])))
  ELSE numpy(cpu([h |-> h, t |-> t]))

\* Mutant: to_numpy without the detach() branch.
to_numpy_no_detach(h, t) == numpy(clone(cpu([h |-> h, t |-> t])))

\* to_numpy(tensor), line 207, on the heap h.
to_numpy_call(h, t) ==
  IF t.requires_grad THEN numpy(clone(cpu(detach([h |-> h, t |-> t]))))
  ELSE numpy(clone(cpu([h |-> h, t |-> t])))

\* ------------------------------------------------------- model and export
\* The pretrained files model/pytorch_model.pt may be: the weights, and the
\* number of rows of the embedding table they were trained with.
StateDicts == {[weights |-> 1, vocab_size |-> 3], [weights |-> 2, vocab_size |-> 5]}

\* TextClassificationModel(vocab_size, embed_dim, num_class)
TextClassificationModel(vocab_size, embed_dim, num_class) ==
  [vocab_size |-> vocab_size, embed_dim |-> embed_dim, num_class |-> num_class,
   offsets |-> <<0>>, weights |-> 0]

\* Mutant: the export without dynamic_axes, axis 0 fixed to the dummy input.
onnx_export_static(model, inp_len) ==
  [vocab_size |-> model.vocab_size, num_class |-> model.num_class,
   offsets |-> model.offsets, weights |-> model.weights,
   dummy_len |-> inp_len, dynamic_axis0 |-> FALSE]

\* torch.onnx.export(model, inp, path, ..., dynamic_axes={"input": {0: ...}})
onnx_export(model, inp_len) ==
  [vocab_size |-> model.vocab_size, num_class |-> model.num_class,
   offsets |-> model.offsets, weights |-> model.weights,
   dummy_len |-> inp_len, dynamic_axis0 |-> TRUE]

NoFile == [vocab_size |-> 0, num_class |-> 0, offsets |-> <<>>, weights |-> 0,
           dummy_len |-> 0, dynamic_axis0 |-> FALSE]

\* inp = torch.rand(vocab_size).long(): the dummy input has vocab_size entries.
dummy_input_len(vocab_size) == vocab_size

\* --------------------------------------------------------- inference engine
\* The score the pretrained weights w give class c for one token index: the
\* embedding row of idx times the fc weight row of c.
Weight(w, idx, c) == IF c = (idx + w) % 4 THEN 3 ELSE c % 2
Bias(w, c) == IF c = 3 THEN 1 ELSE 0

RECURSIVE BagSum(_, _, _, _, _)
BagSum(w, data, c, from, to) ==
  IF from > to THEN 0 ELSE Weight(w, data[from], c) + BagSum(w, data, c, from + 1, to)

\* EmbeddingBag (mode mean) followed by fc, for the bag data[from..to]. The
\* scores are kept times the bag length, which keeps them integers and
\* leaves their order unchanged.
BagScores(file, data, from, to) ==
  [c \in 0..(file.num_class - 1) |->
     BagSum(file.weights, data, c, from, to) + (to - from + 1) * Bias(file.weights, c)]

\* forward(text): one output row per entry of offsets.
Forward(file, data) ==
  [b \in 1..Len(file.offsets) |->
     BagScores(file, data, file.offsets[b] + 1,
               IF b < Len(file.offsets) THEN file.offsets[b + 1] ELSE Len(data))]

\* What InferenceSession accepts as "input": an int64 vector whose length is
\* free when axis 0 was exported dynamic, and whose entries index the table.
InputAccepted(file, arr) ==
  /\ arr.dtype = "int64"
  /\ file.dynamic_axis0 \/ Len(arr.data) = file.dummy_len
  /\ \A i \in 1..Len(arr.data) : arr.data[i] \in 0..(file.vocab_size - 1)

EngineFaults == {"none", "RuntimeError", "Other"}

\* self.artifacts.model.run([output_name], onnx_inputs): rejects a bad input
\* with InvalidArgument, may fail in the runtime, else returns the output.
session_run(file, arr, fault) ==
  IF ~InputAccepted(file, arr) THEN [kind |-> "InvalidArgument", out |-> <<>>]
  ELSE IF fault # "none" THEN [kind |-> fault, out |-> <<>>]
  ELSE [kind |-> "ok", out |-> Forward(file, arr.data)]

\* numpy argmax over one row: the first position of the largest score.
ArgMax(row) ==
  CHOOSE k \in DOMAIN row :
    /\ \A j \in DOMAIN row : row[j] <= row[k]
    /\ \A j \in DOMAIN row : j < k => row[j] < row[k]

\* Mutant: the except clause names InvalidArgument only.
CaughtInvalidArgumentOnly == {"InvalidArgument"}

\* Mutant: the except clause catches every exception of the engine.
CaughtEverything == {"RuntimeError", "InvalidArgument", "Other"}

\* The exceptions the except clause of classify_categories names.
Caught == {"RuntimeError", "InvalidArgument"}

\* Mutant: the arg max is returned as it is, without the + 1.
classify_return_zero_based(run) ==
  IF run.kind = "ok"
  THEN IF Len(run.out) = 1
       THEN [kind |-> "value", val |-> ArgMax(run.out[1]), exc |-> ""]
       ELSE [kind |-> "raised", val |-> 0, exc |-> "ValueError"]
  ELSE IF run.kind \in {"RuntimeError", "InvalidArgument"}
       THEN [kind |-> "None", val |-> 0, exc |-> ""]
       ELSE [kind |-> "raised", val |-> 0, exc |-> run.kind]

\* Lines 229-233: the value classify_categories leaves with, given what the
\* inference call did.
classify_return(run) ==
  IF run.kind = "ok"
  THEN IF Len(run.out) = 1
       THEN [kind |-> "value", val |-> ArgMax(run.out[1]) + 1, exc |-> ""]
       ELSE [kind |-> "raised", val |-> 0, exc |-> "ValueError"]
  ELSE IF run.kind \in Caught
       THEN [kind |-> "None", val |-> 0, exc |-> ""]
       ELSE [kind |-> "raised", val |-> 0, exc |-> run.kind]

\* The line the except clause prints: the input's shape and the error.
classify_log(run, arr) ==
  IF run.kind \in Caught THEN <<[shape |-> <<Len(arr.data)>>, err |-> run.kind]>> ELSE <<>>

\* OnnxService.__init__
news_label == (1 :> "World") @@ (2 :> "Sports") @@ (3 :> "Business") @@ (4 :> "Sci/Tec")

Labels == {"World", "Sports", "Business", "Sci/Tec"}

\* Mutant: the lookup is news_label.get(...), which yields None for a
\* missing key.
predict_return_get(labels, ret) ==
  IF ret.kind = "raised" THEN [kind |-> "raised", exc |-> ret.exc, body |-> <<>>]
  ELSE IF ret.kind = "value" /\ ret.val \in DOMAIN labels
       THEN [kind |-> "response", exc |-> "", body |-> [categories |-> labels[ret.val]]]
       ELSE [kind |-> "response", exc |-> "", body |-> [categories |-> "None"]]

\* Line 238: look the returned value up and build the response.
predict_return(labels, ret) ==
  IF ret.kind = "raised" THEN [kind |-> "raised", exc |-> ret.exc, body |-> <<>>]
  ELSE IF ret.kind = "value" /\ ret.val \in DOMAIN labels
       THEN [kind |-> "response", exc |-> "", body |-> [categories |-> labels[ret.val]]]
       ELSE [kind |-> "raised", exc |-> "KeyError", body |-> <<>>]

\* ------------------------------------------------------------------- state
VARIABLES
  dataset,     \* the training set get_tokenizer_vocab reads
  pt_file,     \* the pretrained state dict at model/pytorch_model.pt
  pc,          \* index in Script of the next statement of the notebook
  halted,      \* an exception stopped the run
  active,      \* the statement at pc is a command still running
  ran,         \* the statements started so far, in order
  tokenizer,   \* notebook global: "" until built
  vocab,       \* notebook global: <<>> until built
  params,      \* vocab_size, embedding_size, num_class
  model,       \* the torch model
  onnx_file,   \* model/pytorch_model.onnx
  check,       \* what onnx.checker.check_model did: "pending", "accepted", "raised"
  bento_svc,   \* the OnnxService instance of the notebook
  packs,       \* how often each artifact was packed
  saves,       \* how often save was called
  saved,       \* the saved bundle
  server,      \* the service the running server loaded from the bundle
  req,         \* the predict calls in flight, one per worker
  memo,        \* one earlier answered call, kept to compare later ones with
  heap,        \* the buffers of the tensors and arrays of a to_numpy call
  tensor,      \* the tensor handed to to_numpy
  array,       \* what to_numpy returned
  given,       \* the elements the tensor is to hold
  copied       \* the elements the array is to hold

memory == <<heap, tensor, array, given, copied>>

vars == <<dataset, pt_file, pc, halted, active, ran, tokenizer, vocab, params, model,
          onnx_file, check, bento_svc, packs, saves, saved, server, req, memo, memory>>

world == <<dataset, pt_file, memory>>
globals == <<tokenizer, vocab, params, model, onnx_file, check>>
bundle == <<bento_svc, packs, saves, saved>>
serving == <<server, req, memo>>

\* The notebook's statements from cell 7 on, in cell order.
Script == <<"get_tokenizer_vocab", "get_model_params", "TextClassificationModel",
            "load_state_dict", "export", "onnx_load", "check_model", "OnnxService",
            "pack_model", "pack_tokenizer", "pack_vocab", "save",
            "serve", "nvidia_smi", "serve_ngrok", "containerize", "docker_run">>

\* The step of the spec's linear script a statement belongs to.
Phase(stmt) ==
  CASE stmt \in {"get_tokenizer_vocab", "get_model_params"} -> 1
    [] stmt \in {"TextClassificationModel", "load_state_dict"} -> 2
    [] stmt = "export" -> 3
    [] stmt \in {"onnx_load", "check_model"} -> 4
    [] stmt \in {"OnnxService", "pack_model", "pack_tokenizer", "pack_vocab"} -> 5
    [] OTHER -> 6

ArtifactNames == {"model", "tokenizer", "vocab"}
NoArtifacts == [model |-> NoFile, tokenizer |-> "", vocab |-> <<>>]
NoService == [created |-> FALSE, news_label |-> <<>>, artifacts |-> NoArtifacts]
NoParams == [vocab_size |-> 0, embed_dim |-> 0, num_class |-> 0]
NoModel == TextClassificationModel(0, 0, 0)

Workers == 1..MaxWorkers

NoRun == [kind |-> "unset", out |-> <<>>]
NoRet == [kind |-> "unset", val |-> 0, exc |-> ""]
NoResult == [kind |-> "unset", exc |-> "", body |-> <<>>]
NoArray == [data |-> <<>>, dtype |-> ""]
Idle == [pc |-> "idle", body |-> <<>>, sentence |-> NoneVal, tokens |-> <<>>,
         text |-> NoArray, fault |-> "none", run |-> NoRun, ret |-> NoRet,
         logged |-> <<>>, result |-> NoResult, trace |-> <<>>]

NoMemo == [set |-> FALSE, between |-> FALSE]

NoTensor == [buf |-> 0, requires_grad |-> FALSE, device |-> "", dtype |-> ""]
NoNdarray == [state |-> "none", buf |-> 0, dtype |-> ""]

InitService ==
  /\ dataset \in Datasets
  /\ pt_file \in StateDicts
  /\ pc = 1
  /\ halted = FALSE
  /\ active = FALSE
  /\ ran = <<>>
  /\ tokenizer = ""
  /\ vocab = <<>>
  /\ params = NoParams
  /\ model = NoModel
  /\ onnx_file = NoFile
  /\ check = "pending"
  /\ bento_svc = NoService
  /\ packs = [a \in ArtifactNames |-> 0]
  /\ saves = 0
  /\ saved = NoArtifacts
  /\ server = NoService
  /\ req = [w \in Workers |-> Idle]
  /\ memo = NoMemo

Init ==
  /\ InitService
  /\ heap = <<>>
  /\ tensor = NoTensor
  /\ array = NoNdarray
  /\ given = <<>>
  /\ copied = <<>>

\* ------------------------------------------------------ the notebook script
At(stmt) == ~halted /\ ~active /\ pc <= Len(Script) /\ Script[pc] = stmt

\* Mutant: the statement after the next one.
NextStmtSkips(i) == i + 2

\* The statement after the one at index i: the next line of the cell, or
\* the first line of the next cell.
NextStmt(i) == i + 1

\* A statement that returned: the run goes on with the next one.
Returned(stmt) == /\ pc' = NextStmt(pc)
                  /\ ran' = Append(ran, stmt)
                  /\ UNCHANGED <<halted, active>>

\* Mutant: an exception is swallowed and the run goes on.
StopsOnRaiseNever(stmt) == FALSE

\* Whether the run stops at a statement that raised.
StopsOnRaise(stmt) == TRUE

\* A statement that raised: the cell is left and no later cell runs.
Raised(stmt) == /\ halted' = StopsOnRaise(stmt)
                /\ pc' = IF StopsOnRaise(stmt) THEN pc ELSE NextStmt(pc)
                /\ ran' = Append(ran, stmt)
                /\ UNCHANGED active

\* tokenizer, vocab = get_tokenizer_vocab()
GetTokenizerVocab(ok) ==
  /\ At("get_tokenizer_vocab")
  /\ IF ok THEN /\ tokenizer' = "basic_english"
                /\ vocab' = Vocab(dataset)
                /\ Returned("get_tokenizer_vocab")
           ELSE /\ Raised("get_tokenizer_vocab")
                /\ UNCHANGED <<tokenizer, vocab>>
  /\ UNCHANGED <<world, params, model, onnx_file, check, bundle, serving>>

\* vocab_size, embedding_size, num_class = get_model_params(vocab)
GetModelParams(ok) ==
  /\ At("get_model_params")
  /\ IF ok THEN params' = get_model_params(vocab) /\ Returned("get_model_params")
           ELSE Raised("get_model_params") /\ UNCHANGED params
  /\ UNCHANGED <<world, tokenizer, vocab, model, onnx_file, check, bundle, serving>>

\* model = TextClassificationModel(vocab_size, embedding_size, num_class).to(device)
NewModel(ok) ==
  /\ At("TextClassificationModel")
  /\ IF ok THEN /\ model' = TextClassificationModel(params.vocab_size, params.embed_dim,
                                                     params.num_class)
                /\ Returned("TextClassificationModel")
           ELSE Raised("TextClassificationModel") /\ UNCHANGED model
  /\ UNCHANGED <<world, tokenizer, vocab, params, onnx_file, check, bundle, serving>>

\* model.load_state_dict(torch.load("model/pytorch_model.pt")); model.eval().
\* Loading is strict: a table of another size raises.
LoadStateDict(ok) ==
  /\ At("load_state_dict")
  /\ IF ok /\ pt_file.vocab_size = model.vocab_size
     THEN model' = [model EXCEPT !.weights = pt_file.weights] /\ Returned("load_state_dict")
     ELSE Raised("load_state_dict") /\ UNCHANGED model
  /\ UNCHANGED <<world, tokenizer, vocab, params, onnx_file, check, bundle, serving>>

\* inp = torch.rand(vocab_size).long(); torch.onnx.export(model, inp, ...)
Export(ok) ==
  /\ At("export")
  /\ IF ok THEN /\ onnx_file' = onnx_export(model, dummy_input_len(params.vocab_size))
                /\ Returned("export")
           ELSE Raised("export") /\ UNCHANGED onnx_file
  /\ UNCHANGED <<world, tokenizer, vocab, params, model, check, bundle, serving>>

\* onnx_model = onnx.load(onnx_model_path)
OnnxLoad(ok) ==
  /\ At("onnx_load")
  /\ IF ok THEN Returned("onnx_load") ELSE Raised("onnx_load")
  /\ UNCHANGED <<world, globals, bundle, serving>>

\* onnx.checker.check_model(onnx_model): returns nothing or raises.
CheckModel(valid) ==
  /\ At("check_model")
  /\ IF valid THEN check' = "accepted" /\ Returned("check_model")
              ELSE check' = "raised" /\ Raised("check_model")
  /\ UNCHANGED <<world, tokenizer, vocab, params, model, onnx_file, bundle, serving>>

\* bento_svc = OnnxService()
NewService(ok) ==
  /\ At("OnnxService")
  /\ IF ok THEN /\ bento_svc' = [created |-> TRUE, news_label |-> news_label,
                                  artifacts |-> NoArtifacts]
                /\ Returned("OnnxService")
           ELSE Raised("OnnxService") /\ UNCHANGED bento_svc
  /\ UNCHANGED <<world, globals, packs, saves, saved, serving>>

\* The value each pack statement of cell 8 hands over.
PackedValue(name) ==
  CASE name = "model" -> onnx_file
    [] name = "tokenizer" -> tokenizer
    [] name = "vocab" -> vocab

\* bento_svc.pack(name, value)
Pack(name, ok) ==
  /\ At("pack_" \o name)
  /\ IF ok THEN /\ bento_svc' = [bento_svc EXCEPT !.artifacts[name] = PackedValue(name)]
                /\ packs' = [packs EXCEPT ![name] = @ + 1]
                /\ Returned("pack_" \o name)
           ELSE Raised("pack_" \o name) /\ UNCHANGED <<bento_svc, packs>>
  /\ UNCHANGED <<world, globals, saves, saved, serving>>

\* saved_path = bento_svc.save()
Save(ok) ==
  /\ At("save")
  /\ saves' = saves + 1
  /\ IF ok THEN saved' = bento_svc.artifacts /\ Returned("save")
           ELSE Raised("save") /\ UNCHANGED saved
  /\ UNCHANGED <<world, globals, bento_svc, packs, serving>>

\* !bentoml serve OnnxService:latest and !docker run ...: load the saved
\* bundle into a new OnnxService and serve it until interrupted.
Serve(cmd) ==
  /\ cmd \in {"serve", "docker_run"}
  /\ At(cmd)
  /\ active' = TRUE
  /\ ran' = Append(ran, cmd)
  /\ server' = [created |-> TRUE, news_label |-> news_label, artifacts |-> saved]
  /\ UNCHANGED <<world, globals, bundle, pc, halted, req, memo>>

\* ^C: the server stops, the calls in flight are dropped, the run goes on.
Interrupt ==
  /\ active
  /\ active' = FALSE
  /\ pc' = NextStmt(pc)
  /\ server' = NoService
  /\ req' = [w \in Workers |-> Idle]
  /\ UNCHANGED <<world, globals, bundle, halted, ran, memo>>

\* !nvidia-smi, !bentoml serve PyTorchFashionClassifier:latest (a service
\* this notebook never saved), !bentoml containerize: a shell command's
\* failure raises nothing.
Shell(cmd) ==
  /\ cmd \in {"nvidia_smi", "serve_ngrok", "containerize"}
  /\ At(cmd)
  /\ Returned(cmd)
  /\ UNCHANGED <<world, globals, bundle, serving>>

\* ---------------------------------------------------------- OnnxService
\* Mutant: onnx_inputs is kept on the instance, where the call of another
\* worker overwrites it.
OnnxInputsShared(rq, w) ==
  LET others == {v \in DOMAIN rq : v # w /\ rq[v].pc \in {"indexed", "ran", "returned"}}
  IN  IF others = {} THEN rq[w].text ELSE rq[CHOOSE v \in others : TRUE].text

\* Line 226: onnx_inputs, a local of the call.
OnnxInputs(rq, w) == rq[w].text

Step(w, to, what, changes) ==
  req' = [req EXCEPT ![w] = [changes EXCEPT !.pc = to, !.trace = Append(@, what)]]

\* The framework hands a parsed JSON body to predict; line 237.
Predict(w, body) ==
  /\ active /\ server.created
  /\ req[w].pc = "idle"
  /\ Step(w, "called", "get_text",
          [req[w] EXCEPT !.body = body, !.sentence = DictGet(body, "text")])
  /\ UNCHANGED <<world, globals, bundle, pc, halted, active, ran, server, memo>>

\* Lines 222-223: tokenizer(x) of text_pipeline; None has no lower().
Tokenize(w) ==
  /\ req[w].pc = "called"
  /\ IF req[w].sentence.some
     THEN Step(w, "tokenized", "tokenize",
               [req[w] EXCEPT !.tokens = basic_english(req[w].sentence.v)])
     ELSE Step(w, "returned", "tokenize",
               [req[w] EXCEPT !.ret = [kind |-> "raised", val |-> 0,
                                       exc |-> "AttributeError"]])
  /\ UNCHANGED <<world, globals, bundle, pc, halted, active, ran, server, memo>>

\* Line 223: [vocab[token] for token in ...], torch.tensor, to_numpy.
MapIndices(w) ==
  /\ req[w].pc = "tokenized"
  /\ Step(w, "indexed", "index",
          [req[w] EXCEPT !.text =
             to_numpy(torch_tensor(text_pipeline(server.artifacts.vocab, req[w].tokens)))])
  /\ server' = [server EXCEPT !.artifacts.vocab = VocabAfterLookup(@, req[w].tokens)]
  /\ UNCHANGED <<world, globals, bundle, pc, halted, active, ran, memo>>

\* Line 230: self.artifacts.model.run([output_name], onnx_inputs). fault is
\* the failure of the runtime under this call, if it gets to execute.
Run(w, fault) ==
  /\ req[w].pc = "indexed"
  /\ Step(w, "ran", "run",
          [req[w] EXCEPT !.fault = IF InputAccepted(server.artifacts.model, OnnxInputs(req, w))
                                    THEN fault ELSE "none",
                         !.run = session_run(server.artifacts.model, OnnxInputs(req, w), fault)])
  /\ UNCHANGED <<world, globals, bundle, pc, halted, active, ran, server, memo>>

\* Lines 231-233: return the arg max plus one, or log and fall off the end.
Leave(w) ==
  /\ req[w].pc = "ran"
  /\ Step(w, "returned", IF req[w].run.kind = "ok" THEN "argmax" ELSE "except",
          [req[w] EXCEPT !.ret = classify_return(req[w].run),
                         !.logged = classify_log(req[w].run, OnnxInputs(req, w))])
  /\ UNCHANGED <<world, globals, bundle, pc, halted, active, ran, server, memo>>

\* Line 238: self.news_label[...] and the response; an exception of
\* classify_categories passes through predict instead.
Lookup(w) ==
  /\ req[w].pc = "returned"
  /\ Step(w, "done", IF req[w].ret.kind = "raised" THEN "raise" ELSE "label",
          [req[w] EXCEPT !.result = predict_return(server.news_label, req[w].ret)])
  /\ UNCHANGED <<world, globals, bundle, pc, halted, active, ran, server, memo>>

\* The framework sends the response (or the error) and the worker is free.
\* keep: this call, in which the engine's runtime did not fail, is the one
\* later calls are compared with; memo.between tells that a failed call
\* with another body was served since.
Deliver(w, keep) ==
  /\ req[w].pc = "done"
  /\ req' = [req EXCEPT ![w] = Idle]
  /\ memo' = IF keep /\ ~memo.set /\ req[w].fault = "none"
             THEN [set |-> TRUE, body |-> req[w].body, result |-> req[w].result,
                   between |-> FALSE]
             ELSE IF memo.set /\ req[w].body # memo.body /\ req[w].result.kind = "raised"
                  THEN [memo EXCEPT !.between = TRUE]
                  ELSE memo
  /\ UNCHANGED <<world, globals, bundle, pc, halted, active, ran, server>>

Notebook ==
  \/ \E ok \in BOOLEAN : GetTokenizerVocab(ok)
  \/ \E ok \in BOOLEAN : GetModelParams(ok)
  \/ \E ok \in BOOLEAN : NewModel(ok)
  \/ \E ok \in BOOLEAN : LoadStateDict(ok)
  \/ \E ok \in BOOLEAN : Export(ok)
  \/ \E ok \in BOOLEAN : OnnxLoad(ok)
  \/ \E valid \in BOOLEAN : CheckModel(valid)
  \/ \E ok \in BOOLEAN : NewService(ok)
  \/ \E name \in ArtifactNames, ok \in BOOLEAN : Pack(name, ok)
  \/ \E ok \in BOOLEAN : Save(ok)
  \/ \E cmd \in {"serve", "docker_run"} : Serve(cmd)
  \/ \E cmd \in {"nvidia_smi", "serve_ngrok", "containerize"} : Shell(cmd)
  \/ Interrupt

Calls(W, keeps) ==
  \/ \E w \in W, body \in Bodies : Predict(w, body)
  \/ \E w \in W : Tokenize(w)
  \/ \E w \in W : MapIndices(w)
  \/ \E w \in W, fault \in EngineFaults : Run(w, fault)
  \/ \E w \in W : Leave(w)
  \/ \E w \in W : Lookup(w)
  \/ \E w \in W, keep \in keeps : Deliver(w, keep)

\* The notebook and a server that answers one call after the other.
Next == Notebook \/ Calls({1}, {FALSE})

Spec == Init /\ [][Next]_vars

\* The same, remembering one answered call.
NextHistory == Notebook \/ Calls({1}, BOOLEAN)

SpecHistory == Init /\ [][NextHistory]_vars

\* The notebook and a server whose workers interleave their calls.
NextConcurrent == Notebook \/ Calls(Workers, {FALSE})

SpecConcurrent == Init /\ [][NextConcurrent]_vars

\* --------------------------------------------------- to_numpy on its own
Elements == {0, 1}
TensorData == SeqsUpTo(Elements, MaxTensorLen)

\* Any tensor: only a floating point tensor can require grad.
InitToNumpy ==
  /\ InitService
  /\ \E data \in TensorData, rg \in BOOLEAN, dev \in {"cpu", "cuda:0"},
        dt \in {"int64", "float32"} :
       /\ rg => dt = "float32"
       /\ heap = <<data>>
       /\ tensor = [buf |-> 1, requires_grad |-> rg, device |-> dev, dtype |-> dt]
       /\ given = data
  /\ array = NoNdarray
  /\ copied = <<>>

service == <<dataset, pt_file, pc, halted, active, ran, globals, bundle, serving>>

\* array = to_numpy(tensor)
CallToNumpy ==
  /\ array.state = "none"
  /\ LET r == to_numpy_call(heap, tensor)
     IN  /\ heap' = r.h
         /\ array' = r.a
         /\ copied' = IF r.ok THEN heap[tensor.buf] ELSE copied
  /\ UNCHANGED <<tensor, given, service>>

\* The caller writes an element of the returned array.
WriteArray(i, v) ==
  /\ array.state = "array"
  /\ i \in 1..Len(heap[array.buf])
  /\ heap' = [heap EXCEPT ![array.buf][i] = v]
  /\ copied' = [copied EXCEPT ![i] = v]
  /\ UNCHANGED <<tensor, array, given, service>>

\* The caller writes an element of the tensor.
WriteTensor(i, v) ==
  /\ array.state = "array"
  /\ i \in 1..Len(heap[tensor.buf])
  /\ heap' = [heap EXCEPT ![tensor.buf][i] = v]
  /\ given' = [given EXCEPT ![i] = v]
  /\ UNCHANGED <<tensor, array, copied, service>>

NextToNumpy ==
  \/ CallToNumpy
  \/ \E i \in 1..MaxTensorLen, v \in Elements : WriteArray(i, v)
  \/ \E i \in 1..MaxTensorLen, v \in Elements : WriteTensor(i, v)

SpecToNumpy == InitToNumpy /\ [][NextToNumpy]_vars

\* ------------------------------------------------------------------ claims
IsPrefix(s, t) == Len(s) <= Len(t) /\ \A i \in 1..Len(s) : s[i] = t[i]

InSeq(x, s) == \E i \in 1..Len(s) : s[i] = x

\* C1: every request whose JSON body is {"text": <string>} gets a response
\* with exactly one key, 'categories', whose value is one of the four labels.
C1_EveryTextGetsACategory ==
  \A w \in Workers :
    (req[w].pc = "done" /\ DOMAIN req[w].body = {"text"}) =>
      /\ req[w].result.kind = "response"
      /\ DOMAIN req[w].result.body = {"categories"}
      /\ req[w].result.body.categories \in {"World", "Sports", "Business", "Sci/Tec"}

\* C2: when the inference call raises RuntimeError or InvalidArgument,
\* classify_categories logs the input's shape with the error and returns
\* None; no exception of these two kinds leaves classify_categories.
C2_CaughtIsLoggedAndNoneReturned ==
  \A w \in Workers :
    /\ (req[w].pc \in {"returned", "done"}
          /\ req[w].run.kind \in {"RuntimeError", "InvalidArgument"}) =>
         /\ req[w].ret.kind = "None"
         /\ req[w].logged = <<[shape |-> <<Len(req[w].text.data)>>, err |-> req[w].run.kind]>>
    /\ req[w].ret.kind = "raised" =>
         req[w].ret.exc \notin {"RuntimeError", "InvalidArgument"}

C2_Witness ==
  \E w \in Workers :
    /\ req[w].pc = "returned"
    /\ req[w].run.kind = "RuntimeError"
    /\ req[w].ret.kind = "None"
    /\ Len(req[w].text.data) = 2

\* C3: with the engine's runtime not failing, a call's outcome is fixed by
\* its text: a call with the text of an earlier call returns the same
\* label (or fails the same way), whatever calls were served before or
\* between them.
C3_SameTextSameLabel ==
  \A w \in Workers :
    (req[w].pc = "done" /\ memo.set /\ memo.body = req[w].body) =>
      /\ req[w].fault = "none" => req[w].result = memo.result
      /\ (memo.result.kind = "response" /\ req[w].result.kind = "response") =>
           req[w].result.body = memo.result.body

C3_Witness ==
  \E w \in Workers :
    /\ req[w].pc = "done" /\ memo.set /\ memo.body = req[w].body
    /\ memo.result.kind = "response" /\ req[w].result.kind = "response"
    /\ memo.between

\* The steps of a call, in the order of the code.
Steps == <<"get_text", "tokenize", "index", "run", "argmax", "label">>
\* The steps of a call that an exception cut short or turned aside.
Aborted == { <<"get_text", "tokenize", "raise">>,
             <<"get_text", "tokenize", "index", "run", "argmax", "raise">>,
             <<"get_text", "tokenize", "index", "run", "except", "raise">>,
             <<"get_text", "tokenize", "index", "run", "except", "label">> }

C5_NotebookIsLinear ==
  /\ IsPrefix(ran, Script)
  /\ \A i, j \in 1..Len(ran) : i < j => Phase(ran[i]) <= Phase(ran[j])
  /\ Len(ran) = IF halted \/ active THEN pc ELSE pc - 1
  /\ pc > Len(Script) => ran = Script

C5_Witness == pc > Len(Script) /\ ran = Script /\ ~halted

\* What predict returns for a body when it is the only call the service
\* loaded from the saved bundle ever serves.
PredictAlone(body, fault) ==
  LET sentence == DictGet(body, "text")
  IN  IF ~sentence.some
      THEN [kind |-> "raised", exc |-> "AttributeError", body |-> <<>>]
      ELSE LET arr == to_numpy(torch_tensor(text_pipeline(saved.vocab,
                                                          basic_english(sentence.v))))
           IN  predict_return(news_label,
                              classify_return(session_run(saved.model, arr, fault)))

\* C6: when the server interleaves several predict calls on one service,
\* each call returns what it would return if it ran alone.
C6_InterleavedAsAlone ==
  \A w \in Workers :
    req[w].pc = "done" => req[w].result = PredictAlone(req[w].body, req[w].fault)

C6_Witness ==
  \E w, v \in Workers :
    /\ w # v
    /\ req[w].pc = "done" /\ req[w].result.kind = "response"
    /\ req[v].pc \in {"indexed", "ran", "returned", "done"}
    /\ req[v].text # req[w].text

\* C7: after a successful inference call with four output scores,
\* classify_categories returns the (first) position of the largest score
\* plus one, a value in 1..4; 1..4 are keys of news_label and the lookup
\* in predict succeeds.
C7_ArgmaxPlusOneIsAKey ==
  \A w \in Workers :
    (req[w].pc \in {"returned", "done"} /\ req[w].run.kind = "ok"
       /\ Len(req[w].run.out) = 1 /\ DOMAIN req[w].run.out[1] = 0..3) =>
      LET row == req[w].run.out[1]
          k == req[w].ret.val - 1
      IN  /\ req[w].ret.kind = "value"
          /\ req[w].ret.val \in 1..4
          /\ \A j \in 0..3 : row[j] <= row[k] /\ (j < k => row[j] < row[k])
          /\ 1..4 \subseteq DOMAIN server.news_label
          /\ req[w].pc = "done" =>
               /\ req[w].result.kind = "response"
               /\ req[w].result.body.categories = server.news_label[req[w].ret.val]

C7_Witness ==
  \E w \in Workers :
    /\ req[w].pc = "done" /\ req[w].run.kind = "ok"
    /\ req[w].ret.val = 4
    /\ req[w].result.kind = "response" /\ req[w].result.body.categories = "Sci/Tec"

\* C8: when the inference call raises RuntimeError or InvalidArgument,
\* classify_categories yields None and predict ends in KeyError with no
\* response body; a response never carries a category outside the four
\* labels.
C8_CaughtEndsInKeyError ==
  \A w \in Workers :
    /\ (req[w].pc = "done" /\ req[w].run.kind \in {"RuntimeError", "InvalidArgument"}) =>
         /\ req[w].ret.kind = "None"
         /\ req[w].result.kind = "raised"
         /\ req[w].result.exc = "KeyError"
         /\ req[w].result.body = <<>>
    /\ req[w].result.kind = "response" =>
         req[w].result.body.categories \in {"World", "Sports", "Business", "Sci/Tec"}

C8_Witness ==
  \E w \in Workers :
    /\ req[w].pc = "done" /\ req[w].run.kind = "InvalidArgument"
    /\ req[w].result.exc = "KeyError"

\* C9: artifacts are packed and the bundle saved only after the checker
\* accepted the exported file: when check_model raised, no OnnxService is
\* created, nothing is packed and save is not called; when save is called,
\* model, tokenizer and vocab have each been packed exactly once.
C9_PackAndSaveOnlyAfterCheck ==
  /\ check = "raised" =>
       /\ ~bento_svc.created
       /\ \A a \in ArtifactNames : packs[a] = 0
       /\ saves = 0
  /\ (bento_svc.created \/ \E a \in ArtifactNames : packs[a] > 0) => check = "accepted"
  /\ saves > 0 =>
       /\ check = "accepted"
       /\ \A a \in {"model", "tokenizer", "vocab"} : packs[a] = 1

C9_Witness == saves = 1 /\ check = "accepted" /\ \A a \in ArtifactNames : packs[a] = 1

\* C10: for a text of n >= 1 tokens the engine does not reject the
\* length-n index array, whatever the length of the dummy export input,
\* and its output has exactly one row, so argmax(1).item() is defined.
C10_AnyLengthOneRow ==
  \A w \in Workers :
    (InSeq("run", req[w].trace) /\ Len(req[w].tokens) >= 1) =>
      /\ req[w].run.kind # "InvalidArgument"
      /\ req[w].fault = "none" => (req[w].run.kind = "ok" /\ Len(req[w].run.out) = 1)
      /\ (req[w].run.kind = "ok" /\ req[w].pc \in {"returned", "done"}) =>
           req[w].ret.kind = "value"

C10_Witness ==
  \E w \in Workers :
    /\ req[w].pc = "returned" /\ req[w].run.kind = "ok"
    /\ Len(req[w].tokens) = 2
    /\ Len(req[w].text.data) # server.artifacts.model.dummy_len
    /\ req[w].ret.kind = "value"

\* C11: every index sent to the engine is in 0 .. vocab_size-1 of the
\* exported embedding table, the packed vocabulary being the one whose
\* length sized the model.
C11_IndicesWithinTable ==
  /\ \A w \in Workers :
       InSeq("run", req[w].trace) =>
         \A i \in 1..Len(OnnxInputs(req, w).data) :
           OnnxInputs(req, w).data[i] \in 0..(server.artifacts.model.vocab_size - 1)
  /\ saved # NoArtifacts => (saved.vocab = vocab /\ saved.model.vocab_size = Len(vocab))
  /\ server.created => Len(server.artifacts.vocab) = server.artifacts.model.vocab_size

C11_Witness ==
  \E w \in Workers :
    /\ InSeq("run", req[w].trace)
    /\ \E i \in 1..Len(req[w].text.data) :
         req[w].text.data[i] = server.artifacts.model.vocab_size - 1

\* C12: predict and classify_categories never change the service: after
\* any calls, successful or failed, news_label maps exactly 1..4 to the
\* four labels and the artifacts are the ones that were packed.
C12_CallsLeaveServiceUnchanged ==
  server.created =>
    /\ DOMAIN server.news_label = 1..4
    /\ server.news_label[1] = "World" /\ server.news_label[2] = "Sports"
    /\ server.news_label[3] = "Business" /\ server.news_label[4] = "Sci/Tec"
    /\ server.artifacts = bento_svc.artifacts
    /\ server.artifacts.model = onnx_file
    /\ server.artifacts.tokenizer = tokenizer
    /\ server.artifacts.vocab = vocab

C12_Witness ==
  /\ server.created
  /\ memo.set /\ memo.result.kind = "response" /\ memo.between
  /\ \E w \in Workers : req[w].pc = "done" /\ req[w].result.exc = "Other"

\* C13: only the inference call is guarded: an exception of tokenising and
\* an exception of the engine that is neither RuntimeError nor
\* InvalidArgument leave classify_categories and predict, unlogged and
\* without a response.
C13_OnlyTheRunIsGuarded ==
  \A w \in Workers :
    /\ (req[w].pc \in {"returned", "done"} /\ req[w].run.kind = "Other") =>
         (req[w].ret.kind = "raised" /\ req[w].ret.exc = "Other")
    /\ (req[w].pc \in {"returned", "done"} /\ ~InSeq("index", req[w].trace)) =>
         (req[w].ret.kind = "raised" /\ req[w].run.kind = "unset")
    /\ req[w].ret.kind = "raised" =>
         /\ req[w].logged = <<>>
         /\ req[w].pc = "done" =>
              /\ req[w].result.kind = "raised"
              /\ req[w].result.exc = req[w].ret.exc
              /\ req[w].result.body = <<>>

C13_Witness ==
  \E w \in Workers :
    /\ req[w].pc = "done" /\ req[w].run.kind = "Other"
    /\ req[w].result.kind = "raised" /\ req[w].result.exc = "Other"

\* C14: a body without the key 'text' does not fail at the lookup in
\* predict: the sentence is None, classify_categories is entered,
\* tokenising None fails before the try block, and no response is returned.
C14_MissingTextFailsInTokenizer ==
  \A w \in Workers :
    (req[w].pc # "idle" /\ "text" \notin DOMAIN req[w].body) =>
      /\ req[w].sentence = NoneVal
      /\ IsPrefix(req[w].trace, <<"get_text", "tokenize", "raise">>)
      /\ req[w].run.kind = "unset" /\ req[w].logged = <<>>
      /\ req[w].result.kind # "response"
      /\ req[w].pc \in {"returned", "done"} =>
           (req[w].ret.kind = "raised" /\ req[w].ret.exc = "AttributeError")
      /\ req[w].pc = "done" =>
           (req[w].result.kind = "raised" /\ req[w].result.exc = "AttributeError")

C14_Witness ==
  \E w \in Workers :
    /\ req[w].pc = "done" /\ "text" \notin DOMAIN req[w].body
    /\ req[w].result.exc = "AttributeError"

\* C15: to_numpy returns an array with the tensor's elements in the
\* tensor's order, whether the tensor requires grad or not; the array is a
\* copy, and the tensor is left as it was.
C15_ToNumpyCopies ==
  array.state # "none" =>
    /\ array.state = "array"
    /\ array.dtype = tensor.dtype
    /\ array.buf # tensor.buf
    /\ heap[array.buf] = copied
    /\ heap[tensor.buf] = given
    /\ tensor.buf = 1
    /\ Len(copied) = Len(given)

C15_Witness ==
  /\ array.state = "array"
  /\ tensor.requires_grad
  /\ tensor.device = "cpu"
  /\ Len(given) = 2
  /\ copied # given

====
